---- MODULE Spec2Model ----
(***************************************************************************)
(* State-machine model of qutebrowser's CompletionView                     *)
(* (qutebrowser/widgets/_completion.py): the update handler, the           *)
(* next/previous navigation, the selection write-back with its             *)
(* _ignore_change guard, and the config notification.                      *)
(*                                                                         *)
(* Texts are sequences of characters.  A model index is <<category, row>>:    *)
(* row 0 is the category header, row i > 0 the i-th item of the category   *)
(* in the source model; Invalid is the invalid QModelIndex.                *)
(***************************************************************************)
EXTENDS Integers, Sequences, FiniteSets, TLC

\* ------------------------------------------------------------- bounds
\* Most tokens in one command line.
MaxParts == 1
\* Most connections of one model's row signals to resize_completion.
MaxConnects == 2

\* ------------------------------------------------------------- data
None == "None"
Invalid == <<0, 0>>
\* The tokens a command line is made of: texts over the characters 1 and 2.
Tokens == {<< >>, <<1>>, <<2>>, <<1, 2>>}
PartsSet == UNION {[1..n -> Tokens] : n \in 0..MaxParts}
CursorParts == (0 - MaxParts)..MaxParts
Prefixes == {":", "/"}
ModelIds == {"cmd", "opt"}
Sections == {"completion", "aliases", "general"}
Options == {"show", "quick-complete"}

\* The catalog of completion sources: per source, its categories in order,
\* each the texts of its items in order.  "cmd" has a last category that a
\* pattern can empty, "opt" a first category that is always empty.
srcmodel(m) ==
    IF m = "cmd" THEN << << <<1>>, <<1, 2>> >>, << <<2>> >> >>
    ELSE << << >>, << <<2>> >>, << <<1>> >> >>

VARIABLES
    enabled,        \* self._enabled
    ignore_change,  \* self._ignore_change
    model,          \* self._model
    lastmodel,      \* self._lastmodel
    visible,        \* self.isVisible()
    currentIndex,   \* self.selectionModel().currentIndex()
    selection,      \* the selected row of the selection model, or Invalid
    pattern,        \* pattern of each filter model
    cfg,            \* the config store: completion.show, completion.quick-complete
    pc,             \* where selectionChanged stands: idle, or inside an emit
    emitted,        \* change_completed_part emissions of the last top-level call
    conns,          \* per model: connections of its rowsRemoved/rowsInserted
                    \* to resize_completion
    last            \* the handler invocation that made the last step

eng == <<enabled, ignore_change, model, lastmodel, visible, currentIndex,
         selection, pattern, conns>>
vars == <<enabled, ignore_change, model, lastmodel, visible, currentIndex,
          selection, pattern, conns, cfg, pc, emitted, last>>

\* ------------------------------------------------------------- filter model
\* The item matches when the pattern is a contiguous part of its text; the
\* empty pattern matches every item.
Matches(pat, text) ==
    \E i \in 0..(Len(text) - Len(pat)) : SubSeq(text, i + 1, i + Len(pat)) = pat

\* The items of category c that pass the filter, in order.
CategoryItems(m, pat, c) ==
    SelectSeq([i \in 1..Len(srcmodel(m)[c]) |-> <<c, i>>],
              LAMBDA x : Matches(pat, srcmodel(m)[x[1]][x[2]]))

RECURSIVE RowsFrom(_, _, _)
RowsFrom(m, pat, c) ==
    IF c > Len(srcmodel(m)) THEN << >>
    ELSE LET its == CategoryItems(m, pat, c)
         IN (IF its = << >> THEN << >> ELSE << <<c, 0>> >> \o its)
            \o RowsFrom(m, pat, c + 1)

\* The displayed rows of every model under every pattern, computed once.
RowsTable == [m \in ModelIds, pat \in Tokens |-> RowsFrom(m, pat, 1)]

\* The rows the expanded tree view displays, top to bottom: each category
\* that has passing items as a header row followed by its items.
Rows(m, pat) == RowsTable[m, pat]

\* The number of items of every model under every pattern, computed once.
ItemCountTable ==
    [m \in ModelIds, pat \in Tokens |->
        Len(SelectSeq(RowsTable[m, pat], LAMBDA x : x[2] > 0))]

\* self._model.item_count: the number of items that pass the filter.
item_count(m, pat) == ItemCountTable[m, pat]

\* self._model.data(index): the text of an item.
data(m, idx) ==
    IF idx[1] \in 1..Len(srcmodel(m)) /\ idx[2] \in 1..Len(srcmodel(m)[idx[1]])
    THEN srcmodel(m)[idx[1]][idx[2]]
    ELSE None

\* idx.parent()
parent(idx) == IF idx[2] > 0 THEN <<idx[1], 0>> ELSE Invalid

RowPos(rows, idx) ==
    IF \E p \in 1..Len(rows) : rows[p] = idx
    THEN CHOOSE p \in 1..Len(rows) : rows[p] = idx
    ELSE 0

\* self.indexBelow(idx) / self.indexAbove(idx)
indexBelow(rows, idx) ==
    LET p == RowPos(rows, idx)
    IN IF p = 0 \/ p = Len(rows) THEN Invalid ELSE rows[p + 1]

indexAbove(rows, idx) ==
    LET p == RowPos(rows, idx)
    IN IF p <= 1 THEN Invalid ELSE rows[p - 1]

RECURSIVE FirstFrom(_, _, _)
FirstFrom(m, pat, c) ==
    IF c > Len(srcmodel(m)) THEN Invalid
    ELSE IF CategoryItems(m, pat, c) # << >> THEN CategoryItems(m, pat, c)[1]
    ELSE FirstFrom(m, pat, c + 1)

\* self._model.first_item(): the first item of the first non-empty category.
first_item(m, pat) == FirstFrom(m, pat, 1)

RECURSIVE LastFrom(_, _, _)
LastFrom(m, pat, c) ==
    IF c < 1 THEN Invalid
    ELSE IF CategoryItems(m, pat, c) # << >>
         THEN CategoryItems(m, pat, c)[Len(CategoryItems(m, pat, c))]
    ELSE LastFrom(m, pat, c - 1)

\* self._model.last_item(): the last item of the last non-empty category.
last_item(m, pat) == LastFrom(m, pat, Len(srcmodel(m)))

\* ------------------------------------------------------------- navigation
\* Mutation of NoSelectionIdx: starts from the last item.
NoSelectionLast(m, pat, upwards) == last_item(m, pat)

\* _next_idx, no item selected yet: the index returned.
NoSelectionIdx(m, pat, upwards) == first_item(m, pat)

\* Mutation of WrapIdx: wraps to the first item in both directions.
WrapAlwaysFirst(m, pat, upwards) == first_item(m, pat)

\* _next_idx, arrived at the beginning/end: the index wrapped to.
WrapIdx(m, pat, upwards) ==
    IF upwards THEN last_item(m, pat) ELSE first_item(m, pat)

\* Mutation of IsRealItem: a category header passes for an item.
AnyRow(idx) == TRUE

\* _next_idx: the index is a real item, not a category header.
IsRealItem(idx) == parent(idx) # Invalid

RECURSIVE NextIdxLoop(_, _, _, _)
NextIdxLoop(m, pat, idx, upwards) ==
    LET nxt == IF upwards THEN indexAbove(Rows(m, pat), idx)
               ELSE indexBelow(Rows(m, pat), idx)
    IN IF nxt = Invalid THEN WrapIdx(m, pat, upwards)
       ELSE IF IsRealItem(nxt) THEN nxt
       ELSE NextIdxLoop(m, pat, nxt, upwards)

\* CompletionView._next_idx(upwards) with the view on model m filtered by pat
\* and the current index idx.
_next_idx(m, pat, idx, upwards) ==
    IF idx = Invalid THEN NoSelectionIdx(m, pat, upwards)
    ELSE NextIdxLoop(m, pat, idx, upwards)

\* ------------------------------------------------------------- python helpers
\* parts[i] raises no IndexError.
IndexOk(parts, i) == (0 - Len(parts)) <= i /\ i < Len(parts)
\* parts[i]
Index(parts, i) == IF i >= 0 THEN parts[i + 1] ELSE parts[Len(parts) + i + 1]

\* ------------------------------------------------------------- bookkeeping
\* The record of a handler invocation: which handler, with which inputs, the
\* exit it took, whether it called set_model, how many rowsRemoved and
\* rowsInserted signals the active model sent, and how many resize_completion
\* emissions the call made.
Call(op, path) ==
    [op |-> op, path |-> path, prefix |-> ":", resolved |-> None,
     malformed |-> FALSE, prev |-> FALSE, from |-> Invalid,
     section |-> "", option |-> "", setmodel |-> 0, rowsig |-> 0,
     resized |-> 0]

\* ------------------------------------------------------------- set_model
\* The current index after self.setModel(new): the view gets a fresh
\* selection model unless it is already on that model.
IndexAfterSetModel(new, idx) == IF new = model THEN idx ELSE Invalid

\* Mutation of ModelAfterSetModel: the new model is not stored.
ModelNotStored(new) == model

\* self._model = model
ModelAfterSetModel(new) == new

\* The connections after set_model(new): one more from each of new's row
\* signals to resize_completion; nothing is ever disconnected.
ConnsAfterSetModel(new) == [conns EXCEPT ![new] = @ + 1]

\* The row signals of every model for every change of pattern, computed once.
RowSignalsTable ==
    [m \in ModelIds, old \in Tokens, pat \in Tokens |->
        LET was(c) == {CategoryItems(m, old, c)[k] :
                          k \in 1..Len(CategoryItems(m, old, c))}
            now(c) == {CategoryItems(m, pat, c)[k] :
                          k \in 1..Len(CategoryItems(m, pat, c))}
        IN Cardinality({c \in 1..Len(srcmodel(m)) : was(c) \ now(c) # {}})
           + Cardinality({c \in 1..Len(srcmodel(m)) : now(c) \ was(c) # {}})]

\* The rowsRemoved and rowsInserted signals model m sends when its pattern
\* goes from old to pat: per category, one for the rows that left and one
\* for the rows that came.
RowSignals(m, old, pat) == RowSignalsTable[m, old, pat]

\* The current index after the filter of model m changed to pat: an index whose
\* item still passes stays; otherwise the selection model moves it to a
\* remaining row of the same category or invalidates it.
IndexAfterFilter(m, pat, idx) ==
    IF idx = Invalid THEN {Invalid}
    ELSE IF RowPos(Rows(m, pat), idx) # 0 THEN {idx}
    ELSE {Invalid} \cup
         {Rows(m, pat)[k] : k \in {j \in 1..Len(Rows(m, pat)) :
                                     /\ Rows(m, pat)[j][1] = idx[1]
                                     /\ Rows(m, pat)[j][2] > 0}}

\* The selected row after the filter changed: deselected when filtered out.
SelectionAfterFilter(m, pat, idx) ==
    IF idx # Invalid /\ RowPos(Rows(m, pat), idx) # 0 THEN idx ELSE Invalid

\* ------------------------------------------------------------- selectionChanged
\* Mutation of QuickComplete: one of the two conditions is enough.
QuickEither(m, pat) == item_count(m, pat) = 1 \/ cfg.quick

\* self._model.item_count == 1 and config.get('completion', 'quick-complete')
QuickComplete(m, pat) == item_count(m, pat) = 1 /\ cfg.quick

\* Mutation of IgnoreDuringImmediate: the guard is set for every emission.
GuardAlsoImmediate == TRUE

\* self._ignore_change while change_completed_part.emit(data, True) runs.
IgnoreDuringImmediate == ignore_change

\* self._ignore_change while change_completed_part.emit(data, False) runs.
IgnoreDuringEmit == TRUE

\* Mutation of IgnoreAfterEmit: the flag is not reset.
GuardNotReset == TRUE

\* self._ignore_change after change_completed_part.emit(data, False) returned.
IgnoreAfterEmit == FALSE

\* Mutation of WriteBackText: a selection that became empty writes back the
\* empty text.
WriteBackAlways(m, sel) == IF sel # Invalid THEN data(m, sel) ELSE << >>

\* indexes = selected.indexes(); if indexes: data = self._model.data(indexes[0])
\* The text to write back, None when there is none.
WriteBackText(m, sel) == IF sel # Invalid THEN data(m, sel) ELSE None

\* A handler call, or the part of it that is left, emits nothing.
NoEmission ==
    /\ emitted' = IF pc = "idle" THEN << >> ELSE emitted
    /\ UNCHANGED <<ignore_change, pc>>

\* selectionChanged(selected, deselected) up to the emission, with self._model
\* being m under pattern pat; sel is the row that became selected, Invalid
\* when selected.indexes() is empty.
selectionChanged(m, pat, sel) ==
    IF WriteBackText(m, sel) # None THEN
        IF QuickComplete(m, pat) THEN
            /\ emitted' = << <<WriteBackText(m, sel), TRUE>> >>
            /\ pc' = "emit_immediate"
            /\ ignore_change' = IgnoreDuringImmediate
        ELSE
            /\ ignore_change' = IgnoreDuringEmit
            /\ emitted' = << <<WriteBackText(m, sel), FALSE>> >>
            /\ pc' = "emit_provisional"
    ELSE NoEmission

\* selectionChanged after the emission returned.
EmitReturn ==
    /\ pc # "idle"
    /\ ignore_change' = IF pc = "emit_provisional" THEN IgnoreAfterEmit
                        ELSE ignore_change
    /\ pc' = "idle"
    /\ last' = Call("emit_return", pc)
    /\ UNCHANGED <<enabled, model, lastmodel, visible, currentIndex, selection,
                   pattern, conns, cfg, emitted>>

\* selectionChanged left by an exception that change_completed_part.emit
\* raised: the statement after the emission is not reached.
EmitRaise ==
    /\ pc # "idle"
    /\ pc' = "idle"
    /\ last' = Call("emit_raise", pc)
    /\ UNCHANGED <<enabled, ignore_change, model, lastmodel, visible,
                   currentIndex, selection, pattern, conns, cfg, emitted>>

\* ------------------------------------------------------------- on_update_completion
\* Mutation of UpdateIgnored: the guard is never looked at.
GuardOff == FALSE

\* if self._ignore_change: return
UpdateIgnored == ignore_change

\* Mutation of IsCommand: every prefix passes for a command.
EveryPrefix(prefix) == TRUE

\* if prefix != ':'
IsCommand(prefix) == prefix = ":"

\* The visibility after the prefix test failed: self.hide().
NonCommandVisible == FALSE

\* Mutation of ModelChanged: every resolved model counts as a new one.
AlwaysChanged(new) == TRUE

\* if model != self._lastmodel
ModelChanged(new) == new # lastmodel

\* Mutation of NoModelVisible: the surface is never hidden.
NoModelKeeps(changed) == visible

\* The visibility after resolution gave None: hidden when that differs from
\* _lastmodel, left alone when _lastmodel is None already.
NoModelVisible(changed) == IF changed THEN FALSE ELSE visible

\* pattern = parts[cursor_part] if parts else '': whether it raises.
PatternRaises(parts, cursor_part) ==
    parts # << >> /\ ~IndexOk(parts, cursor_part)

\* pattern = parts[cursor_part] if parts else ''
PatternOf(parts, cursor_part) ==
    IF parts # << >> THEN Index(parts, cursor_part) ELSE << >>

\* Mutation of VisibleAfterFilter: an empty model does not hide.
ShownWhenEmpty(m, pat) == IF enabled THEN TRUE ELSE visible

\* The visibility after the pattern was applied: hidden on an empty model,
\* shown when enabled, left alone otherwise.
VisibleAfterFilter(m, pat) ==
    IF item_count(m, pat) = 0 THEN FALSE
    ELSE IF enabled THEN TRUE
    ELSE visible

\* on_update_completion(prefix, parts, cursor_part)
on_update_completion(prefix, parts, cursor_part) ==
    LET rec(path, res, sm, rs, rz) ==
            [Call("update", path) EXCEPT
                !.prefix = prefix, !.resolved = res,
                !.malformed = (parts # << >> /\ ~IndexOk(parts, cursor_part)),
                !.setmodel = sm, !.rowsig = rs, !.resized = rz]
    IN
    IF UpdateIgnored THEN
        /\ last' = rec("ignored", "notcalled", 0, 0, 0)
        /\ NoEmission
        /\ UNCHANGED <<enabled, model, lastmodel, visible, currentIndex,
                       selection, pattern, conns>>
    ELSE IF ~IsCommand(prefix) THEN
        /\ visible' = NonCommandVisible
        /\ last' = rec("noncommand", "notcalled", 0, 0, 0)
        /\ NoEmission
        /\ UNCHANGED <<enabled, model, lastmodel, currentIndex, selection,
                       pattern, conns>>
    ELSE
        \* model = self.completer._get_new_completion(parts, cursor_part)
        \E new \in ModelIds \cup {None} :
            LET changed == ModelChanged(new)
                swap == changed /\ new # None
                sm == IF swap THEN 1 ELSE 0
                target == IF swap THEN ModelAfterSetModel(new) ELSE model
                idx1 == IF swap THEN IndexAfterSetModel(new, currentIndex)
                        ELSE currentIndex
                sel1 == IF swap THEN IndexAfterSetModel(new, selection)
                        ELSE selection
                conns1 == IF swap THEN ConnsAfterSetModel(new) ELSE conns
            IN
            /\ swap => conns[new] < MaxConnects
            /\ IF new = None THEN
                /\ lastmodel' = None
                /\ visible' = NoModelVisible(changed)
                /\ last' = rec("nomodel", new, 0, 0, 0)
                /\ NoEmission
                /\ UNCHANGED <<enabled, model, currentIndex, selection,
                               pattern, conns>>
               ELSE IF target = None \/ PatternRaises(parts, cursor_part) THEN
                \* the handler is left by an exception after the model swap
                /\ lastmodel' = new
                /\ model' = target
                /\ currentIndex' = idx1
                /\ selection' = sel1
                /\ conns' = conns1
                /\ last' = rec("fault", new, sm, 0, sm)
                /\ IF sel1 # selection
                   THEN selectionChanged(model, pattern[model], sel1)
                   ELSE NoEmission
                /\ UNCHANGED <<enabled, visible, pattern>>
               ELSE
                LET pat == PatternOf(parts, cursor_part)
                    sel2 == SelectionAfterFilter(target, pat, sel1)
                    rs == RowSignals(target, pattern[target], pat)
                IN
                /\ lastmodel' = new
                /\ model' = target
                /\ conns' = conns1
                /\ pattern' = [pattern EXCEPT ![target] = pat]
                /\ currentIndex' \in IndexAfterFilter(target, pat, idx1)
                /\ selection' = sel2
                /\ visible' = VisibleAfterFilter(target, pat)
                /\ last' = rec(IF item_count(target, pat) = 0 THEN "empty"
                               ELSE "marked", new, sm, rs,
                               sm + conns1[target] * rs)
                /\ IF sel2 # selection
                   THEN selectionChanged(target, pat, sel2)
                   ELSE NoEmission
                /\ UNCHANGED enabled

\* ------------------------------------------------------------- _next_prev_item
\* Mutation of NavIgnored: the keypress is handled while hidden too.
NavNeverIgnored == FALSE

\* if not self.isVisible(): return
NavIgnored == ~visible

\* _next_prev_item(prev): setCurrentIndex(idx, ClearAndSelect | Rows) makes idx
\* current, selects its row, and reports a selection that changed to
\* selectionChanged.
_next_prev_item(prev) ==
    LET rec(path) == [Call("nav", path) EXCEPT !.prev = prev,
                                               !.from = currentIndex]
    IN
    IF NavIgnored THEN
        /\ last' = rec("hidden")
        /\ NoEmission
        /\ UNCHANGED <<enabled, model, lastmodel, visible, currentIndex,
                       selection, pattern, conns>>
    ELSE IF model = None THEN
        /\ last' = rec("fault")
        /\ NoEmission
        /\ UNCHANGED <<enabled, model, lastmodel, visible, currentIndex,
                       selection, pattern, conns>>
    ELSE
        LET idx == _next_idx(model, pattern[model], currentIndex, prev)
        IN
        /\ currentIndex' = idx
        /\ selection' = idx
        /\ last' = rec("moved")
        /\ IF idx # selection
           THEN selectionChanged(model, pattern[model], idx)
           ELSE NoEmission
        /\ UNCHANGED <<enabled, model, lastmodel, visible, pattern, conns>>

\* ------------------------------------------------------------- the other slots
\* on_clear_completion_selection()
on_clear_completion_selection ==
    /\ IF model # None
       THEN currentIndex' = Invalid /\ selection' = Invalid
       ELSE UNCHANGED <<currentIndex, selection>>
    /\ IF model # None /\ selection # Invalid
       THEN selectionChanged(model, pattern[model], Invalid)
       ELSE NoEmission
    /\ last' = Call("clear", "done")
    /\ UNCHANGED <<enabled, model, lastmodel, visible, pattern, conns>>

\* on_config_changed(section, option)
on_config_changed(section, option) ==
    LET rec(path) == [Call("config", path) EXCEPT !.section = section,
                                                  !.option = option]
    IN
    IF section = "completion" /\ option = "show" THEN
        /\ enabled' = cfg'.show
        /\ last' = rec("done")
        /\ UNCHANGED <<ignore_change, model, lastmodel, visible, currentIndex,
                       selection, pattern, conns>>
    ELSE IF section = "aliases" THEN
        \* self._init_command_completion() is no method of the view
        /\ last' = rec("fault")
        /\ UNCHANGED eng
    ELSE
        /\ last' = rec("done")
        /\ UNCHANGED eng

\* ------------------------------------------------------------- events
\* What on_update_completion takes from parts and cursor_part (line 251):
\* whether the index raises, and the pattern if it does not.
InputClass(parts, cursor_part) ==
    <<PatternRaises(parts, cursor_part),
      IF PatternRaises(parts, cursor_part) THEN << >>
      ELSE PatternOf(parts, cursor_part)>>

\* The arguments of the textChanged signal: of the command lines of up to
\* MaxParts tokens with a cursor position, one for each class of arguments
\* the handler tells apart.
UpdateInputs ==
    {CHOOSE i \in PartsSet \X CursorParts : InputClass(i[1], i[2]) = c :
        c \in {InputClass(j[1], j[2]) : j \in PartsSet \X CursorParts}}

\* The statusbar command widget reports a text change.
TextChanged ==
    /\ pc = "idle"
    /\ \E prefix \in Prefixes, inp \in UpdateInputs :
           on_update_completion(prefix, inp[1], inp[2])
    /\ UNCHANGED cfg

\* The text sink, handling change_completed_part, sets the text and the
\* command widget reports the change before the emission returns.
SinkEcho ==
    /\ pc # "idle"
    /\ \E prefix \in Prefixes, inp \in UpdateInputs :
           on_update_completion(prefix, inp[1], inp[2])
    /\ UNCHANGED cfg

\* completion_item_prev / completion_item_next
completion_item_prev ==
    /\ pc = "idle"
    /\ _next_prev_item(TRUE)
    /\ UNCHANGED cfg

completion_item_next ==
    /\ pc = "idle"
    /\ _next_prev_item(FALSE)
    /\ UNCHANGED cfg

ClearSelection ==
    /\ pc = "idle"
    /\ on_clear_completion_selection
    /\ UNCHANGED cfg

\* The config store sets a value and notifies the view.
ConfigChanged ==
    /\ pc = "idle"
    /\ \E section \in Sections, option \in Options, value \in BOOLEAN :
        /\ cfg' = IF section = "completion" /\ option = "show"
                  THEN [cfg EXCEPT !.show = value]
                  ELSE IF section = "completion" /\ option = "quick-complete"
                  THEN [cfg EXCEPT !.quick = value]
                  ELSE cfg
        /\ on_config_changed(section, option)
    /\ emitted' = << >>
    /\ UNCHANGED pc

\* CompletionView.__init__
Init ==
    /\ cfg \in [show : BOOLEAN, quick : BOOLEAN]
    /\ enabled = cfg.show
    /\ ignore_change = FALSE
    /\ model = None
    /\ lastmodel = None
    /\ visible = FALSE
    /\ currentIndex = Invalid
    /\ selection = Invalid
    /\ pattern = [m \in ModelIds |-> << >>]
    /\ conns = [m \in ModelIds |-> 0]
    /\ pc = "idle"
    /\ emitted = << >>
    /\ last = Call("init", "done")

Next ==
    \/ TextChanged
    \/ SinkEcho
    \/ EmitReturn
    \/ completion_item_prev
    \/ completion_item_next
    \/ ClearSelection
    \/ ConfigChanged

Spec == Init /\ [][Next]_vars

\* The same program with a change_completed_part.emit that may raise.
NextRaise == Next \/ EmitRaise

SpecRaise == Init /\ [][NextRaise]_vars

\* ------------------------------------------------------------- claims
\* The items of model m that pass pattern pat, and their traversal order
\* (categories in order, items within a category in order).
Leaves(m, pat) ==
    {x \in (1..Len(srcmodel(m))) \X (1..2) :
        /\ x[2] <= Len(srcmodel(m)[x[1]])
        /\ Matches(pat, srcmodel(m)[x[1]][x[2]])}

Before(a, b) == a[1] < b[1] \/ (a[1] = b[1] /\ a[2] < b[2])

FirstLeaf(m, pat) ==
    CHOOSE l \in Leaves(m, pat) : \A k \in Leaves(m, pat) : k = l \/ Before(l, k)

LastLeaf(m, pat) ==
    CHOOSE l \in Leaves(m, pat) : \A k \in Leaves(m, pat) : k = l \/ Before(k, l)

\* The step is an on_update_completion call that the guard does not suppress.
UnsuppressedUpdate == last'.op = "update" /\ ~ignore_change

\* C1: a text-changed event delivered from inside a provisional write-back
\* leaves the active model, the last model, the patterns, the visibility and
\* the selection as they were, and a text-changed event delivered while no
\* write-back is in progress is never dropped by the guard.
C1_EchoIsNoOpThenResumes ==
    [][/\ (last'.op = "update" /\ pc = "emit_provisional")
            => UNCHANGED <<model, lastmodel, pattern, visible, currentIndex,
                           selection>>
       /\ (last'.op = "update" /\ pc = "idle")
            => /\ last'.path # "ignored"
               /\ (last'.prefix # ":" => ~visible')]_vars

C1_Witness ==
    /\ last.op = "update"
    /\ pc = "emit_provisional"
    /\ last.prefix = ":"
    /\ last.path = "ignored"
    /\ visible

C3_PrevFromNoneIsLastLeaf ==
    (/\ last.op = "nav"
     /\ last.path = "moved"
     /\ last.prev
     /\ last.from = Invalid
     /\ item_count(model, pattern[model]) >= 1)
        => currentIndex = LastLeaf(model, pattern[model])

\* C4: navigating forward with no current selection selects the first leaf
\* in traversal order; on a model with zero leaves the result is the invalid
\* index, and in neither case does the call fault.
C4_NextFromNoneIsFirstLeaf ==
    (/\ last.op = "nav"
     /\ last.path # "hidden"
     /\ ~last.prev
     /\ last.from = Invalid)
        => /\ last.path = "moved"
           /\ currentIndex = IF item_count(model, pattern[model]) >= 1
                             THEN FirstLeaf(model, pattern[model])
                             ELSE Invalid

C4_Witness ==
    /\ last.op = "nav"
    /\ last.path = "moved"
    /\ ~last.prev
    /\ last.from = Invalid
    /\ item_count(model, pattern[model]) >= 2
    /\ currentIndex = FirstLeaf(model, pattern[model])

RECURSIVE NavIter(_, _, _, _, _)
\* _next_idx applied k times in one direction, starting at idx.
NavIter(m, pat, idx, upwards, k) ==
    IF k = 0 THEN idx
    ELSE _next_idx(m, pat, NavIter(m, pat, idx, upwards, k - 1), upwards)

\* C5: on the active model, from every leaf and in either direction,
\* item_count applications of _next_idx visit every leaf exactly once and end
\* on the starting leaf.
C5_WraparoundClosure ==
    model # None =>
        \A s \in Leaves(model, pattern[model]), upwards \in BOOLEAN :
            LET n == item_count(model, pattern[model])
            IN /\ NavIter(model, pattern[model], s, upwards, n) = s
               /\ {NavIter(model, pattern[model], s, upwards, k) : k \in 1..n}
                    = Leaves(model, pattern[model])

C5_Witness ==
    /\ last.op = "nav"
    /\ last.path = "moved"
    /\ ~last.prev
    /\ item_count(model, pattern[model]) >= 3
    /\ last.from = LastLeaf(model, pattern[model])
    /\ currentIndex = FirstLeaf(model, pattern[model])
    /\ last.from[1] # currentIndex[1]

\* C6: the current index and the selected row are never a category header:
\* each is the invalid index or an item of the active model.
C6_CursorNeverCategory ==
    /\ currentIndex # Invalid =>
          model # None /\ currentIndex \in Leaves(model, << >>)
    /\ selection # Invalid =>
          model # None /\ selection \in Leaves(model, << >>)

C6_Witness ==
    /\ last.op = "nav"
    /\ last.path = "moved"
    /\ last.from # Invalid
    /\ currentIndex # Invalid
    /\ last.from[1] # currentIndex[1]
    /\ Before(last.from, currentIndex)

\* C7: a navigation that changes the selection to an item with text emits
\* change_completed_part exactly once, with the item's text, and immediate
\* exactly when the model has one item and quick-complete is on.
C7_WriteBackMode ==
    [][(/\ last'.op = "nav"
        /\ last'.path = "moved"
        /\ selection' # selection
        /\ selection' # Invalid
        /\ data(model, selection') # None)
           => emitted' = << <<data(model, selection'),
                              (item_count(model, pattern[model]) = 1
                                 /\ cfg.quick)>> >>]_vars

C7_Witness ==
    /\ last.op = "nav"
    /\ pc = "emit_immediate"
    /\ Len(emitted) = 1
    /\ emitted[1][2]

\* C8: an unsuppressed text-changed event whose prefix is not ':' leaves the
\* surface hidden and the active model, the last model and the patterns
\* unchanged, without consulting the completer.
C8_NonCommandHides ==
    [][(UnsuppressedUpdate /\ last'.prefix # ":")
           => /\ ~visible'
              /\ UNCHANGED <<model, lastmodel, pattern>>
              /\ last'.resolved = "notcalled"]_vars

C8_Witness ==
    /\ last.op = "update"
    /\ last.prefix = "/"
    /\ last.path = "noncommand"
    /\ lastmodel # None
    /\ enabled
    /\ item_count(model, pattern[model]) > 0
    /\ ~visible

\* C9: after an unsuppressed text-changed event with prefix ':' for which
\* the completer gave no model, the surface is hidden.
C9_NoModelHides ==
    [][(UnsuppressedUpdate /\ last'.prefix = ":" /\ last'.resolved = None)
           => ~visible']_vars

C9_Witness ==
    /\ last.op = "update"
    /\ last.prefix = ":"
    /\ last.resolved = None
    /\ model # None
    /\ lastmodel = None
    /\ ~visible

\* C10: a text-changed event whose cursor_part is outside the range of a
\* non-empty parts list does not fault.
C10_MalformedPartsNoFault ==
    (last.op = "update" /\ last.malformed) => last.path # "fault"

\* C11: after an unsuppressed text-changed event that ends with a resolved
\* model and at least one item, the surface is visible only if the cached
\* completion.show flag is on.
C11_VisibleOnlyIfEnabled ==
    (/\ last.op = "update"
     /\ last.path = "marked"
     /\ item_count(model, pattern[model]) > 0)
        => (visible => enabled)

\* C12: after an unsuppressed text-changed event that resolved a model and
\* applied the pattern, a model with zero items leaves the surface hidden.
C12_EmptyModelHides ==
    [][(/\ UnsuppressedUpdate
        /\ last'.resolved \in ModelIds
        /\ last'.path # "fault"
        /\ item_count(model', pattern'[model']) = 0)
           => ~visible']_vars

C12_Witness ==
    /\ last.op = "update"
    /\ last.path = "empty"
    /\ last.resolved = model
    /\ item_count(model, pattern[model]) = 0
    /\ enabled
    /\ cfg.show
    /\ ~visible

\* C13: an unsuppressed text-changed event that resolves the model that
\* _lastmodel already names does not replace the active model, does not run
\* set_model (no new connection, no resize signal from a swap), leaves
\* _lastmodel as it was and changes no pattern but the active model's.
C13_SameModelIsReused ==
    [][(/\ UnsuppressedUpdate
        /\ last'.prefix = ":"
        /\ last'.resolved = lastmodel)
           => /\ UNCHANGED <<model, lastmodel, conns>>
              /\ last'.setmodel = 0
              /\ \A m \in ModelIds : m # model => pattern'[m] = pattern[m]
              /\ model # None =>
                    last'.resized = conns[model] * last'.rowsig]_vars

C13_Witness ==
    /\ last.op = "update"
    /\ last.path = "marked"
    /\ last.resolved = lastmodel
    /\ lastmodel = model
    /\ last.setmodel = 0
    /\ last.rowsig = 1
    /\ conns[model] = 1
    /\ visible

\* C14: a text-changed event never starts a write-back; an emission in
\* progress is only ended by its own return, never nested in another one; and
\* no handler call emits change_completed_part more than once.  One navigation
\* event therefore runs at most one emission, and each text-changed event the
\* sink sends back during it is one on_update_completion call that returns.
C14_UpdateNeverWritesBack ==
    [][/\ last'.op = "update"
            => /\ pc' = pc
               /\ emitted' = IF pc = "idle" THEN << >> ELSE emitted
       /\ (pc # "idle" /\ pc' # pc)
            => (pc' = "idle" /\ last'.op = "emit_return")
       /\ Len(emitted') <= 1]_vars

C14_Witness ==
    /\ last.op = "update"
    /\ last.path = "marked"
    /\ last.setmodel = 1
    /\ pc = "emit_immediate"
    /\ Len(emitted) = 1
    /\ selection = Invalid

\* C15: whenever _lastmodel is not None the active model is that model; an
\* unsuppressed update that resolves a model other than _lastmodel leaves both
\* equal to the resolved model; one that resolves None while _lastmodel is set
\* clears _lastmodel and keeps the previous active model.
C15_LastModelConsistency ==
    [][/\ lastmodel' # None => model' = lastmodel'
       /\ (/\ UnsuppressedUpdate
           /\ last'.prefix = ":"
           /\ last'.resolved \in ModelIds
           /\ last'.resolved # lastmodel)
             => /\ model' = last'.resolved
                /\ lastmodel' = last'.resolved
       /\ (/\ UnsuppressedUpdate
           /\ last'.prefix = ":"
           /\ last'.resolved = None
           /\ lastmodel # None)
             => /\ lastmodel' = None
                /\ model' = model
                /\ model' # None]_vars

C15_Witness ==
    /\ last.op = "update"
    /\ last.setmodel = 1
    /\ last.resolved = "opt"
    /\ model = "opt"
    /\ lastmodel = "opt"
    /\ conns["cmd"] >= 1

\* C16: when change_completed_part.emit(data, False) raises, _ignore_change
\* is false once selectionChanged has been left.
C16_GuardReleasedOnRaise ==
    (last.op = "emit_raise" /\ last.path = "emit_provisional")
        => ~ignore_change

\* C17: _ignore_change is false for the whole of a quick-complete emission,
\* and a text-changed event that arrives during it is handled as any other:
\* it is not dropped, a non-command prefix hides the surface and a command
\* prefix consults the completer.
C17_ImmediateNotGuarded ==
    [][/\ pc' = "emit_immediate" => ~ignore_change'
       /\ (last'.op = "update" /\ pc = "emit_immediate")
            => /\ last'.path # "ignored"
               /\ last'.prefix # ":" => ~visible'
               /\ last'.prefix = ":" => last'.resolved # "notcalled"]_vars

C17_Witness ==
    /\ last.op = "update"
    /\ pc = "emit_immediate"
    /\ ~ignore_change
    /\ last.prefix = ":"
    /\ last.resolved \in ModelIds
    /\ last.path = "empty"
    /\ ~visible

\* C18: completion_item_prev / completion_item_next on a hidden surface
\* leave the current index, the selection, the active model, _lastmodel and
\* _ignore_change unchanged and emit nothing; every emission of
\* change_completed_part is started by a navigation on a visible surface.
C18_HiddenNavigationIgnored ==
    [][/\ (last'.op = "nav" /\ ~visible)
            => /\ last'.path = "hidden"
               /\ UNCHANGED <<currentIndex, selection, model, lastmodel,
                              ignore_change, pc>>
               /\ emitted' = << >>
       /\ (pc = "idle" /\ pc' # "idle") => (last'.op = "nav" /\ visible)]_vars

C18_Witness ==
    /\ last.op = "nav"
    /\ last.path = "hidden"
    /\ ~visible
    /\ model # None
    /\ lastmodel = model
    /\ item_count(model, pattern[model]) > 0
    /\ currentIndex = Invalid
    /\ emitted = << >>

\* C19: on_config_changed returns without raising for every section and
\* option.
C19_ConfigChangedNeverFaults ==
    last.op = "config" => last.path # "fault"

\* C20: an update that applies a pattern fires resize_completion once for
\* the model swap, if there was one, and once for each row signal of the
\* active model.
C20_ResizeExact ==
    (last.op = "update" /\ last.path \in {"marked", "empty"})
        => last.resized = last.setmodel + last.rowsig

====
